---- MODULE Spec2Model ----
(***************************************************************************)
(* Model of src/main.rs: the cursor-driven conversion of a tree-sitter     *)
(* syntax tree into an s-expression (to_sexp, construct_list) and the      *)
(* indented printer (dump_sexp), run one after the other on the same tree  *)
(* as main does.                                                           *)
(***************************************************************************)
EXTENDS Integers, Sequences, FiniteSets, TLC

\* ------------------------------------------------------------------------
\* Bounds of the model
\* ------------------------------------------------------------------------

\* largest number of nodes of a syntax tree
MaxNodes == 4

\* ------------------------------------------------------------------------
\* Inputs: the source buffer and the syntax tree
\* ------------------------------------------------------------------------

\* "function add(x, y)" as bytes, a source text parsed by main
SampleSource ==
    <<102, 117, 110, 99, 116, 105, 111, 110, 32, 97, 100, 100, 40, 120, 44, 32, 121, 41>>

\* Option<&str>::None of cursor.field_name()
NoField == "None"

FieldNames == {"function"}

RECURSIVE AncestorsOrSelf(_, _)
\* the nodes on the path from node i up to the root, under parent function p
AncestorsOrSelf(p, i) ==
    IF i = 0 THEN {} ELSE {i} \cup AncestorsOrSelf(p, p[i])

\* nodes are numbered in document (preorder) order; node 1 is the root
IsPreorder(p, n) ==
    /\ p[1] = 0
    /\ \A i \in 2..n : p[i] \in AncestorsOrSelf(p, i - 1)

Shapes(n) == {p \in [1..n -> 0..(n - 1)] : IsPreorder(p, n)}

ChildrenOf(p, n, x) == {c \in 1..n : p[c] = x}

Min(S) == CHOOSE x \in S : \A y \in S : x <= y

Max(S) == CHOOSE x \in S : \A y \in S : y <= x

\* the childless nodes of a shape
LeavesOf(p, n) == {x \in 1..n : ChildrenOf(p, n, x) = {}}

\* node.kind(): a rule name for a named node, the token's literal otherwise
KindOf(named, childless) ==
    IF named THEN (IF childless THEN "identifier" ELSE "call_expression")
    ELSE (IF childless THEN "(" ELSE "alias")

\* the tokens of the sample text, "function" "add" "(" "x" "," "y" ")", as byte
\* ranges; the two blanks belong to no token
TokenStart == <<0, 9, 12, 13, 14, 16, 17>>
TokenEnd == <<8, 12, 13, 14, 15, 17, 18>>

\* the position of childless node x among the childless nodes, in document order
LeafIndex(p, n, x) == Cardinality({y \in LeavesOf(p, n) : y <= x})

\* the first and last childless node below (or at) node x
FirstLeaf(p, n, x) == Min({y \in LeavesOf(p, n) : x \in AncestorsOrSelf(p, y)})
LastLeaf(p, n, x) == Max({y \in LeavesOf(p, n) : x \in AncestorsOrSelf(p, y)})

\* a tree_sitter::Tree over the buffer: shape, is_named, field names, byte ranges.
\* The childless nodes are the tokens of the text, in order; a node with
\* children spans from its first token to its last.
MakeTree(n, p, named, field) ==
    [size |-> n,
     parent |-> p,
     is_named |-> named,
     field_name |-> field,
     kind |-> [x \in 1..n |-> KindOf(named[x], ChildrenOf(p, n, x) = {})],
     start_byte |-> [x \in 1..n |-> TokenStart[LeafIndex(p, n, FirstLeaf(p, n, x))]],
     end_byte |-> [x \in 1..n |-> TokenEnd[LeafIndex(p, n, LastLeaf(p, n, x))]]]

\* the root has no field name: the cursor was not moved there from a parent
FieldsOf(n) == {f \in [1..n -> FieldNames \cup {NoField}] : f[1] = NoField}

\* ------------------------------------------------------------------------
\* The cursor (tree_sitter::TreeCursor); 0 stands for a move that failed
\* ------------------------------------------------------------------------

Children(t, x) == ChildrenOf(t.parent, t.size, x)

GotoFirstChild(t, c) ==
    IF Children(t, c) = {} THEN 0 ELSE Min(Children(t, c))

GotoNextSibling(t, c) ==
    LET later == {x \in Children(t, t.parent[c]) : x > c}
    IN  IF later = {} THEN 0 ELSE Min(later)

GotoParent(t, c) == t.parent[c]

\* ------------------------------------------------------------------------
\* enum SExp
\* ------------------------------------------------------------------------

Kind(s) == [tag |-> "Kind", name |-> s]
Field(s) == [tag |-> "Field", name |-> s]
Value(b) == [tag |-> "Value", text |-> b]
List(es) == [tag |-> "List", elems |-> es]
Token(s) == [tag |-> "Token", name |-> s]

\* derived PartialEq on SExp, as used by `elem == SExp::Token("(")`
IsToken(e, s) == e.tag = "Token" /\ e.name = s

\* Vec::reverse
Reverse(s) == [i \in 1..Len(s) |-> s[Len(s) + 1 - i]]

\* Vec::pop: the stack without its last element
Pop(s) == SubSeq(s, 1, Len(s) - 1)

\* ------------------------------------------------------------------------
\* fn construct_list
\* ------------------------------------------------------------------------

\* fault: the accumulated entries are wrapped without being put back in order
CollapseElemsUnordered(elems) ==
    IF Len(elems) = 1 THEN elems[1] ELSE List(elems)

\* the replacement entry pushed once the delimiter has been popped
CollapseElems(elems) ==
    IF Len(elems) = 1 THEN elems[1] ELSE List(Reverse(elems))

RECURSIVE PopUntilToken(_, _)
\* the `while let Some(elem) = exp_stack.pop()` loop; elems holds the entries
\* popped so far, last pushed first. An exhausted stack ends the loop.
PopUntilToken(exp_stack, elems) ==
    IF exp_stack = <<>> THEN <<>>
    ELSE LET elem == exp_stack[Len(exp_stack)]
             rest == Pop(exp_stack)
         IN  IF IsToken(elem, "(")
             THEN Append(rest, CollapseElems(elems))
             ELSE PopUntilToken(rest, Append(elems, elem))

\* fault: the delimiter is accumulated with the entries instead of dropped
RECURSIVE PopKeepingToken(_, _)
PopKeepingToken(exp_stack, elems) ==
    IF exp_stack = <<>> THEN <<>>
    ELSE LET elem == exp_stack[Len(exp_stack)]
             rest == Pop(exp_stack)
         IN  IF IsToken(elem, "(")
             THEN Append(rest, CollapseElems(Append(elems, elem)))
             ELSE PopKeepingToken(rest, Append(elems, elem))

ConstructListKeepingToken(exp_stack) == PopKeepingToken(exp_stack, <<>>)

\* fault: the entry beneath the delimiter is popped along with it
ConstructListPastToken(exp_stack) ==
    LET done == PopUntilToken(exp_stack, <<>>)
    IN  IF Len(done) >= 2
        THEN Append(SubSeq(done, 1, Len(done) - 2), done[Len(done)])
        ELSE done

ConstructList(exp_stack) == PopUntilToken(exp_stack, <<>>)

\* ------------------------------------------------------------------------
\* State
\* ------------------------------------------------------------------------

VARIABLES
    source_code,          \* the byte buffer handed to dump_sexp and to_sexp
    tree,                 \* the parsed tree
    pc,                   \* where main is: in which loop, or past it
    cursor,               \* the node the running function's cursor is at
    needs_newline,        \* dump_sexp
    indent_level,         \* dump_sexp
    visited_children,     \* dump_sexp
    stdout,               \* what dump_sexp has printed, piece by piece
    is_children_visited,  \* to_sexp
    incomplete,           \* to_sexp: the construction stack
    result,               \* the value to_sexp returned
    dump_walk,            \* history: (node, visited_children) of each dump_sexp iteration
    sexp_walk,            \* history: (node, is_children_visited) of each to_sexp iteration
    pushes,               \* history: every push to_sexp made, with the node it was at
    collapse_calls        \* history: the stack handed to each construct_list call so far

vars == <<source_code, tree, pc, cursor, needs_newline, indent_level,
          visited_children, stdout, is_children_visited, incomplete, result,
          dump_walk, sexp_walk, pushes, collapse_calls>>

input_vars == <<source_code, tree>>
dump_vars == <<needs_newline, indent_level, visited_children, stdout, dump_walk>>
sexp_vars == <<is_children_visited, incomplete, result, sexp_walk, pushes,
               collapse_calls>>

\* no value returned yet
NoResult == [tag |-> "None"]

\* a loop cannot run longer than this on a tree of MaxNodes nodes unless it
\* fails to end; the loops stop being followed beyond it
MaxWalk == 2 * MaxNodes + 2

\* main: parse, then dump_sexp(source, &tree) with its cursor at the root
Init ==
    /\ source_code = SampleSource
    /\ \E n \in 1..MaxNodes :
         \E p \in Shapes(n), named \in [1..n -> BOOLEAN], field \in FieldsOf(n) :
            tree = MakeTree(n, p, named, field)
    /\ pc = "dump_sexp"
    /\ cursor = 1
    /\ needs_newline = FALSE
    /\ indent_level = 0
    /\ visited_children = FALSE
    /\ stdout = <<>>
    /\ is_children_visited = FALSE
    /\ incomplete = <<>>
    /\ result = NoResult
    /\ dump_walk = <<>>
    /\ sexp_walk = <<>>
    /\ pushes = <<>>
    /\ collapse_calls = <<>>

\* ------------------------------------------------------------------------
\* fn dump_sexp
\* ------------------------------------------------------------------------

\* fault: the slice is taken one byte late
NodeTextShifted(src, t, node) ==
    SubSeq(src, t.start_byte[node] + 2, t.end_byte[node] + 1)

\* &source_code[start..end] of a node, as text (from_utf8 keeps the bytes)
NodeText(src, t, node) == SubSeq(src, t.start_byte[node] + 1, t.end_byte[node])

\* n copies of piece p
Repeat(p, n) == [i \in 1..n |-> p]

\* what dump_sexp prints on entering a named node
DumpOpen(t, node, newline, indent) ==
    (IF newline THEN <<[piece |-> "newline"]>> ELSE <<>>)
    \o Repeat([piece |-> "indent"], indent)
    \o (IF t.field_name[node] # NoField
        THEN <<[piece |-> "field", name |-> t.field_name[node]]>> ELSE <<>>)
    \o <<[piece |-> "open", name |-> t.kind[node]]>>

\* fault: the level is not raised on the way down
DumpIndentDescendFlat(indent) == indent

\* indent_level after a successful goto_first_child
DumpIndentDescend(indent) == indent + 1

\* indent_level after a successful goto_parent
DumpIndentAscend(indent) == indent - 1

\* fault: the flag is reset when the cursor moves up, as it is for a sibling
DumpVisitedAfterParentReset == FALSE

\* visited_children after a successful goto_parent
DumpVisitedAfterParent == TRUE

\* fault: the `if is_named` test around the closing marker is missing
DumpCloseAnyNode(t, node) == <<[piece |-> "close"]>>

\* what dump_sexp prints on leaving a node whose children have been visited
DumpClose(t, node) ==
    IF t.is_named[node] THEN <<[piece |-> "close"]>> ELSE <<>>

\* one iteration of the loop with visited_children = false
DumpDescending ==
    /\ pc = "dump_sexp"
    /\ ~visited_children
    /\ Len(dump_walk) < MaxWalk
    /\ LET node == cursor
           is_named == tree.is_named[node]
           opened == IF is_named
                     THEN DumpOpen(tree, node, needs_newline, indent_level)
                     ELSE <<>>
           child == GotoFirstChild(tree, cursor)
       IN  /\ dump_walk' = Append(dump_walk, <<node, visited_children>>)
           /\ needs_newline' = (IF is_named THEN TRUE ELSE needs_newline)
           /\ IF child # 0
              THEN /\ cursor' = child
                   /\ visited_children' = FALSE
                   /\ indent_level' = DumpIndentDescend(indent_level)
                   /\ stdout' = stdout \o opened
              ELSE /\ cursor' = cursor
                   /\ visited_children' = TRUE
                   /\ indent_level' = indent_level
                   /\ stdout' = stdout \o opened \o
                        <<[piece |-> "value", text |-> NodeText(source_code, tree, node)]>>
    /\ UNCHANGED <<input_vars, pc, sexp_vars>>

\* one iteration of the loop with visited_children = true; the break leaves the loop
DumpAscending ==
    /\ pc = "dump_sexp"
    /\ visited_children
    /\ Len(dump_walk) < MaxWalk
    /\ LET node == cursor
           sibling == GotoNextSibling(tree, cursor)
           parent == GotoParent(tree, cursor)
       IN  /\ dump_walk' = Append(dump_walk, <<node, visited_children>>)
           /\ stdout' = stdout \o DumpClose(tree, node)
           /\ IF sibling # 0
              THEN /\ cursor' = sibling
                   /\ visited_children' = FALSE
                   /\ indent_level' = indent_level
                   /\ pc' = pc
              ELSE IF parent # 0
              THEN /\ cursor' = parent
                   /\ visited_children' = DumpVisitedAfterParent
                   /\ indent_level' = DumpIndentAscend(indent_level)
                   /\ pc' = pc
              ELSE /\ cursor' = cursor
                   /\ visited_children' = visited_children
                   /\ indent_level' = indent_level
                   /\ pc' = "dump_sexp_exit"
    /\ UNCHANGED <<input_vars, needs_newline, sexp_vars>>

\* println!("") and return; main then calls to_sexp, whose cursor starts at the root
DumpReturn ==
    /\ pc = "dump_sexp_exit"
    /\ stdout' = Append(stdout, [piece |-> "newline"])
    /\ pc' = "to_sexp"
    /\ cursor' = 1
    /\ is_children_visited' = FALSE
    /\ incomplete' = <<>>
    /\ UNCHANGED <<input_vars, needs_newline, indent_level, visited_children,
                   dump_walk, result, sexp_walk, pushes, collapse_calls>>

\* ------------------------------------------------------------------------
\* fn to_sexp
\* ------------------------------------------------------------------------

\* fault: the `if is_named` test around the pushes is missing
PushedOnEnterAnyNode(t, node) ==
    (IF t.field_name[node] # NoField
     THEN <<Field(t.field_name[node])>> ELSE <<>>)
    \o <<Token("("), Kind(t.kind[node])>>

\* fault: the Field is pushed after the delimiter instead of before it
PushedOnEnterFieldInside(t, node) ==
    IF t.is_named[node]
    THEN <<Token("(")>>
         \o (IF t.field_name[node] # NoField
             THEN <<Field(t.field_name[node])>> ELSE <<>>)
         \o <<Kind(t.kind[node])>>
    ELSE <<>>

\* the entries pushed on entering node `node` with the children not yet visited
PushedOnEnter(t, node) ==
    IF t.is_named[node]
    THEN (IF t.field_name[node] # NoField
          THEN <<Field(t.field_name[node])>> ELSE <<>>)
         \o <<Token("("), Kind(t.kind[node])>>
    ELSE <<>>

\* the entry pushed for a node that has no children
PushedForLeaf(src, t, node) == Value(NodeText(src, t, node))

\* fault: the flag is not reset when the cursor moves to a sibling
VisitedAfterSiblingKept == TRUE

\* is_children_visited after a successful goto_next_sibling
VisitedAfterSibling == FALSE

\* fault: the `if is_named` test around the call of construct_list is missing
CloseNodeAnyNode(t, node, stack) == ConstructList(stack)

\* the stack after the "End of list" step of a node
CloseNode(t, node, stack) ==
    IF t.is_named[node] THEN ConstructList(stack) ELSE stack

\* the pushes of one iteration, each with the node the cursor was at
Logged(node, entries) == [i \in 1..Len(entries) |-> [node |-> node, entry |-> entries[i]]]

\* one iteration of the loop with is_children_visited = false
ToSexpDescending ==
    /\ pc = "to_sexp"
    /\ ~is_children_visited
    /\ Len(sexp_walk) < MaxWalk
    /\ LET node == cursor
           entered == PushedOnEnter(tree, node)
           child == GotoFirstChild(tree, cursor)
           leaf == IF child = 0 THEN <<PushedForLeaf(source_code, tree, node)>> ELSE <<>>
       IN  /\ sexp_walk' = Append(sexp_walk, <<node, is_children_visited>>)
           /\ incomplete' = incomplete \o entered \o leaf
           /\ pushes' = pushes \o Logged(node, entered \o leaf)
           /\ cursor' = (IF child # 0 THEN child ELSE cursor)
           /\ is_children_visited' = (child = 0)
    /\ UNCHANGED <<input_vars, pc, dump_vars, result, collapse_calls>>

\* one iteration of the loop with is_children_visited = true; the break leaves the loop
ToSexpAscending ==
    /\ pc = "to_sexp"
    /\ is_children_visited
    /\ Len(sexp_walk) < MaxWalk
    /\ LET node == cursor
           sibling == GotoNextSibling(tree, cursor)
           parent == GotoParent(tree, cursor)
       IN  /\ sexp_walk' = Append(sexp_walk, <<node, is_children_visited>>)
           /\ incomplete' = CloseNode(tree, node, incomplete)
           /\ collapse_calls' =
                 (IF tree.is_named[node]
                  THEN Append(collapse_calls, [node |-> node, stack |-> incomplete])
                  ELSE collapse_calls)
           /\ IF sibling # 0
              THEN /\ cursor' = sibling
                   /\ is_children_visited' = VisitedAfterSibling
                   /\ pc' = pc
              ELSE IF parent # 0
              THEN /\ cursor' = parent
                   /\ is_children_visited' = is_children_visited
                   /\ pc' = pc
              ELSE /\ cursor' = cursor
                   /\ is_children_visited' = is_children_visited
                   /\ pc' = "to_sexp_exit"
    /\ UNCHANGED <<input_vars, dump_vars, result, pushes>>

\* fault: the remaining stack is always wrapped
ToSexpResultWrapped(stack) == List(stack)

\* the value returned after the loop
ToSexpResult(stack) ==
    IF Len(stack) = 1 THEN stack[1] ELSE List(stack)

\* the lines after the loop: to_sexp returns
ToSexpReturn ==
    /\ pc = "to_sexp_exit"
    /\ result' = ToSexpResult(incomplete)
    /\ pc' = "done"
    /\ UNCHANGED <<input_vars, cursor, dump_vars, is_children_visited, incomplete,
                   sexp_walk, pushes, collapse_calls>>

Next ==
    \/ DumpDescending
    \/ DumpAscending
    \/ DumpReturn
    \/ ToSexpDescending
    \/ ToSexpAscending
    \/ ToSexpReturn

Spec == Init /\ [][Next]_vars

\* the loops are straight-line code of one thread: a step that can be taken is taken
LiveSpec == Spec /\ WF_vars(Next)

\* ------------------------------------------------------------------------
\* construct_list on its own: called once on any stack up to a length
\* ------------------------------------------------------------------------

\* longest stack construct_list is called on directly
MaxStack == 4

\* the entries such a stack is made of
StackEntries ==
    <<Token("("), Kind("identifier"), Field("function"), Value(<<120>>),
      List(<<Kind("identifier"), Value(<<121>>)>>)>>

\* a caller holding any stack of these entries, about to call construct_list
InitCollapse ==
    /\ source_code = SampleSource
    /\ tree = MakeTree(1, [x \in 1..1 |-> 0], [x \in 1..1 |-> TRUE],
                       [x \in 1..1 |-> NoField])
    /\ pc = "construct_list"
    /\ cursor = 1
    /\ needs_newline = FALSE
    /\ indent_level = 0
    /\ visited_children = FALSE
    /\ stdout = <<>>
    /\ is_children_visited = FALSE
    /\ \E k \in 0..MaxStack :
          \E choice \in [1..k -> 1..Len(StackEntries)] :
             incomplete = [i \in 1..k |-> StackEntries[choice[i]]]
    /\ result = NoResult
    /\ dump_walk = <<>>
    /\ sexp_walk = <<>>
    /\ pushes = <<>>
    /\ collapse_calls = <<>>

\* construct_list(&mut incomplete) runs to its end and returns
CallConstructList ==
    /\ pc = "construct_list"
    /\ incomplete' = ConstructList(incomplete)
    /\ collapse_calls' = Append(collapse_calls, [node |-> 0, stack |-> incomplete])
    /\ pc' = "construct_list_returned"
    /\ UNCHANGED <<input_vars, cursor, dump_vars, is_children_visited, result,
                   sexp_walk, pushes>>

CollapseInit == Init \/ InitCollapse

CollapseNext == Next \/ CallConstructList

\* main's run on every tree, together with every direct call of construct_list
CollapseSpec == CollapseInit /\ [][CollapseNext]_vars

\* ------------------------------------------------------------------------
\* Reading a value and the tree
\* ------------------------------------------------------------------------

RECURSIVE Flatten(_)
\* the Kind, Field, Value and Token entries of a value, left to right, at all depths
Flatten(v) ==
    IF v.tag = "List"
    THEN IF v.elems = <<>> THEN <<>>
         ELSE Flatten(Head(v.elems)) \o Flatten(List(Tail(v.elems)))
    ELSE <<v>>

\* the entries of v with tag t, left to right
EntriesOf(v, t) == SelectSeq(Flatten(v), LAMBDA e : e.tag = t)

RECURSIVE SortedSeq(_)
\* the nodes of S in document order
SortedSeq(S) == IF S = {} THEN <<>> ELSE <<Min(S)>> \o SortedSeq(S \ {Min(S)})

Nodes == 1..tree.size
NamedNodes == {n \in Nodes : tree.is_named[n]}
ChildlessNodes == {n \in Nodes : Children(tree, n) = {}}

\* the value to_sexp returned has been computed
Returned == pc = "done"

\* ------------------------------------------------------------------------
\* C1
\* ------------------------------------------------------------------------

\* C1: the value returned by to_sexp holds no Token, neither as the root nor
\* nested at any depth inside a List.
C1_NoTokenInResult ==
    Returned => \A i \in 1..Len(Flatten(result)) : Flatten(result)[i].tag # "Token"

\* a returned value with a List nested in a List, built through several delimiters
C1_Witness ==
    /\ Returned
    /\ result.tag = "List"
    /\ \E i \in 1..Len(result.elems) : result.elems[i].tag = "List"
    /\ Cardinality(NamedNodes) >= 3

\* ------------------------------------------------------------------------
\* C2
\* ------------------------------------------------------------------------

\* the pushes that were not delimiters, in the order they were made
KeptPushes == SelectSeq(pushes, LAMBDA p : p.entry.tag # "Token")

KeptEntries == [i \in 1..Len(KeptPushes) |-> KeptPushes[i].entry]

\* C2 as stated: no entry of the returned value was contributed by an unnamed
\* node; every Value of the result is the text of a named node.
C2_NothingFromUnnamed ==
    Returned =>
        /\ Len(Flatten(result)) = Len(KeptPushes)
        /\ \A i \in 1..Len(Flatten(result)) : tree.is_named[KeptPushes[i].node]

\* C2 amended: the entries of the returned value are the pushes made during the
\* walk, in order; every Kind and Field (and every delimiter) was pushed at a
\* named node, while a Value was pushed at every childless node, named or not.
C2_KindAndFieldFromNamed ==
    Returned =>
        /\ Flatten(result) = KeptEntries
        /\ \A i \in 1..Len(pushes) :
              /\ pushes[i].entry.tag \in {"Kind", "Field", "Token"}
                    => tree.is_named[pushes[i].node]
              /\ pushes[i].entry.tag = "Value"
                    => pushes[i].node \in ChildlessNodes
        /\ \A n \in ChildlessNodes :
              \E i \in 1..Len(pushes) :
                 pushes[i].node = n /\ pushes[i].entry.tag = "Value"

\* a returned value holding the text of an unnamed childless node, in a tree
\* that also has an unnamed node with children
C2_Witness ==
    /\ Returned
    /\ \E n \in ChildlessNodes : ~tree.is_named[n]
    /\ \E n \in Nodes \ ChildlessNodes : ~tree.is_named[n]
    /\ NamedNodes # {}

\* ------------------------------------------------------------------------
\* C3
\* ------------------------------------------------------------------------

\* C3: the number of Kind entries of the returned value, counted at all
\* nesting levels, is the number of named nodes of the tree.
C3_KindCount ==
    Returned => Len(EntriesOf(result, "Kind")) = Cardinality(NamedNodes)

\* a returned value for a tree with named and unnamed nodes, Kinds at two depths
C3_Witness ==
    /\ Returned
    /\ Cardinality(NamedNodes) >= 2
    /\ NamedNodes # Nodes
    /\ result.tag = "List"
    /\ \E i \in 1..Len(result.elems) : result.elems[i].tag = "List"

\* ------------------------------------------------------------------------
\* C5
\* ------------------------------------------------------------------------

\* source[start_byte..end_byte] of node n
Slice(n) == SubSeq(source_code, tree.start_byte[n] + 1, tree.end_byte[n])

\* C5: the Value entries of the returned value are, in order, the texts
\* source[start_byte..end_byte] of the childless nodes of the tree, one Value
\* for each childless node.
C5_ValuesAreLeafTexts ==
    Returned =>
        LET values == EntriesOf(result, "Value")
            leaves == SortedSeq(ChildlessNodes)
        IN  /\ Len(values) = Len(leaves)
            /\ \A i \in 1..Len(leaves) : values[i].text = Slice(leaves[i])

\* a returned value with the texts of several childless nodes, the second of
\* them after a blank that no node covers
C5_Witness ==
    /\ Returned
    /\ Cardinality(ChildlessNodes) >= 3
    /\ Len(EntriesOf(result, "Value")) >= 3

\* ------------------------------------------------------------------------
\* C4
\* ------------------------------------------------------------------------

RECURSIVE Concat(_)
\* the concatenation of a sequence of sequences
Concat(ss) == IF ss = <<>> THEN <<>> ELSE Head(ss) \o Concat(Tail(ss))

RECURSIVE Contribution(_)
\* what the subtree of node n adds to the value, flattened: its Kind if it is
\* named, then its text if it is childless, else what its children add, each
\* named child's part preceded by its Field if it has a field name
Contribution(n) ==
    (IF tree.is_named[n] THEN <<Kind(tree.kind[n])>> ELSE <<>>)
    \o (IF Children(tree, n) = {}
        THEN <<Value(Slice(n))>>
        ELSE LET cs == SortedSeq(Children(tree, n))
             IN  Concat([i \in 1..Len(cs) |->
                    (IF tree.is_named[cs[i]] /\ tree.field_name[cs[i]] # NoField
                     THEN <<Field(tree.field_name[cs[i]])>> ELSE <<>>)
                    \o Contribution(cs[i])]))

\* the named nodes that carry a field name, in document order
FieldNodes ==
    SortedSeq({n \in NamedNodes : tree.field_name[n] # NoField})

\* the number of Field entries in the first k elements of a sequence of values
FieldsIn(es, k) == Len(EntriesOf(List(SubSeq(es, 1, k)), "Field"))

RECURSIVE FieldsPlaced(_, _)
\* in value v, which has `before` Field entries to its left in the whole value:
\* every Field inside a List is followed at once, in that List, by a List or
\* Value holding exactly what the subtree of the node with that field adds
FieldsPlaced(v, before) ==
    IF v.tag # "List" THEN TRUE
    ELSE \A i \in 1..Len(v.elems) :
            LET seen == before + FieldsIn(v.elems, i - 1)
            IN  /\ FieldsPlaced(v.elems[i], seen)
                /\ v.elems[i].tag = "Field" =>
                      /\ i < Len(v.elems)
                      /\ v.elems[i + 1].tag \in {"List", "Value"}
                      /\ seen + 1 <= Len(FieldNodes)
                      /\ v.elems[i].name = tree.field_name[FieldNodes[seen + 1]]
                      /\ Flatten(v.elems[i + 1]) = Contribution(FieldNodes[seen + 1])

\* C4: in the returned value every Field is immediately followed, within the
\* same List, by the List or Value built for the node that carries the field
\* name; no Field is the last element of a List, and the value is no bare Field.
C4_FieldPrecedesItsNode ==
    Returned =>
        /\ result.tag # "Field"
        /\ Len(EntriesOf(result, "Field")) = Len(FieldNodes)
        /\ FieldsPlaced(result, 0)

\* a returned value with two Fields, one of them on a node nested in another
C4_Witness ==
    /\ Returned
    /\ Len(EntriesOf(result, "Field")) >= 2
    /\ \E n \in NamedNodes :
          /\ tree.field_name[n] # NoField
          /\ tree.parent[n] # 1
    /\ \E n \in Nodes : ~tree.is_named[n] /\ tree.field_name[n] # NoField

\* ------------------------------------------------------------------------
\* C6
\* ------------------------------------------------------------------------

\* to_sexp is about to run the iteration that closes the node at the cursor
Closing == pc = "to_sexp" /\ is_children_visited

\* a named node with exactly one retained child: it is childless itself (it
\* wraps its own text), or it has one child that is childless and unnamed, or
\* one child that is named and carries no field name
OneRetainedChild(n) ==
    /\ tree.is_named[n]
    /\ \/ Children(tree, n) = {}
       \/ \E c \in Children(tree, n) :
             /\ Children(tree, n) = {c}
             /\ \/ ~tree.is_named[c] /\ Children(tree, c) = {}
                \/ tree.is_named[c] /\ tree.field_name[c] = NoField

Top(s) == s[Len(s)]

\* C6 as stated: closing a named node that has exactly one retained child
\* leaves that child's entry itself on top of the stack, with no List around it.
C6_NoWrapper ==
    [][(Closing /\ OneRetainedChild(cursor)) => Top(incomplete') = Top(incomplete)]_vars

\* C6 amended: closing a named node that has exactly one retained child
\* replaces the delimiter, the node's Kind and the child's entry by the
\* two-element List [Kind, child's entry]; the entry is not left unwrapped,
\* because the Kind is accumulated with it.
C6_KindAndChildWrapped ==
    [][(Closing /\ OneRetainedChild(cursor)) =>
          /\ Len(incomplete) >= 3
          /\ IsToken(incomplete[Len(incomplete) - 2], "(")
          /\ incomplete' = SubSeq(incomplete, 1, Len(incomplete) - 3)
                \o <<List(<<Kind(tree.kind[cursor]), Top(incomplete)>>)>>]_vars

\* a named node with one named child has just been closed over the child's List
C6_Witness ==
    /\ pc = "to_sexp"
    /\ is_children_visited
    /\ sexp_walk # <<>>
    /\ LET n == sexp_walk[Len(sexp_walk)][1]
       IN  /\ sexp_walk[Len(sexp_walk)][2]
           /\ OneRetainedChild(n)
           /\ Children(tree, n) # {}
           /\ \A c \in Children(tree, n) : tree.is_named[c]
           /\ Top(incomplete).tag = "List"
           /\ Len(Top(incomplete).elems) = 2
           /\ Top(incomplete).elems[2].tag = "List"

\* ------------------------------------------------------------------------
\* C8
\* ------------------------------------------------------------------------

\* C8: when the loop of to_sexp has ended the stack is not empty; a stack of
\* one element is returned as that element, any other as the List of its
\* elements from bottom to top.
C8_ReturnedValue ==
    /\ pc \in {"to_sexp_exit", "done"} => Len(incomplete) >= 1
    /\ Returned =>
          IF Len(incomplete) = 1
          THEN result = incomplete[1]
          ELSE /\ result.tag = "List"
               /\ Len(result.elems) = Len(incomplete)
               /\ \A i \in 1..Len(incomplete) : result.elems[i] = incomplete[i]

\* to_sexp returned with several entries left on the stack
C8_Witness ==
    /\ Returned
    /\ Len(incomplete) >= 3
    /\ \E i \in 1..Len(incomplete) : incomplete[i].tag = "List"

\* ------------------------------------------------------------------------
\* C9
\* ------------------------------------------------------------------------

IsPrefix(s, t) == Len(s) <= Len(t) /\ \A i \in 1..Len(s) : s[i] = t[i]

\* C9: on the same tree to_sexp visits the same (node, children-visited state)
\* pairs as dump_sexp did, step for step, and its loop ends after the same step.
C9_SameWalk ==
    /\ IsPrefix(sexp_walk, dump_walk)
    /\ pc \in {"to_sexp_exit", "done"} => sexp_walk = dump_walk
    /\ (pc = "to_sexp" /\ Len(sexp_walk) < Len(dump_walk)) =>
          <<cursor, is_children_visited>> = dump_walk[Len(sexp_walk) + 1]

\* both loops have ended after walking a tree with siblings and two levels
C9_Witness ==
    /\ Returned
    /\ Len(sexp_walk) = 2 * MaxNodes
    /\ \E n \in Nodes : Cardinality(Children(tree, n)) >= 2
    /\ \E n \in Nodes : tree.parent[n] > 1

\* ------------------------------------------------------------------------
\* C7
\* ------------------------------------------------------------------------

\* one of the two loops is running
InLoop == pc \in {"dump_sexp", "to_sexp"}

\* the children-visited flag of the function main is in
Visited ==
    IF pc \in {"dump_sexp", "dump_sexp_exit"} THEN visited_children
    ELSE is_children_visited

\* the shapes an iteration can have, read off the cursor and the flag
Descends == ~Visited /\ tree.parent[cursor'] = cursor /\ ~Visited' /\ pc' = pc
ToSibling ==
    /\ Visited /\ cursor' > cursor /\ tree.parent[cursor'] = tree.parent[cursor]
    /\ ~Visited' /\ pc' = pc
Ascends == Visited /\ cursor' = tree.parent[cursor] /\ Visited' /\ pc' = pc
TurnsAtLeaf ==
    /\ ~Visited /\ Children(tree, cursor) = {} /\ cursor' = cursor
    /\ Visited' /\ pc' = pc
LoopEnds == Visited /\ cursor = 1 /\ cursor' = cursor /\ pc' # pc

\* C7 as stated: every iteration of a loop descends, moves to a sibling or
\* ascends, or is the failed ascent from the root that ends the loop.
C7_EveryStepMoves ==
    [][InLoop => (Descends \/ ToSibling \/ Ascends \/ LoopEnds)]_vars

\* C7 amended: both loops reach their break; every iteration descends, moves
\* to a sibling, ascends, or, at a childless node whose children are not yet
\* marked visited, stays on the node and only sets the flag; and the loop
\* ends exactly in the iteration that finds the root with its children visited.
C7_LoopsEnd ==
    /\ <>(pc = "dump_sexp_exit")
    /\ <>(pc = "to_sexp_exit")
    /\ [][InLoop =>
            /\ Descends \/ ToSibling \/ Ascends \/ TurnsAtLeaf \/ LoopEnds
            /\ (pc' # pc) <=> (Visited /\ cursor = 1)]_vars

\* both loops have ended on a tree of the largest size, three levels deep
C7_Witness ==
    /\ Returned
    /\ tree.size = MaxNodes
    /\ Len(dump_walk) = 2 * MaxNodes
    /\ Len(sexp_walk) = 2 * MaxNodes
    /\ \E n \in Nodes : tree.parent[n] > 1
    /\ \E n \in Nodes : Cardinality(Children(tree, n)) >= 2

\* ------------------------------------------------------------------------
\* C10
\* ------------------------------------------------------------------------

\* the cursor of dump_sexp moves to a child, or up to the parent, in this step
DumpGoesDown == pc = "dump_sexp" /\ tree.parent[cursor'] = cursor
DumpGoesUp == pc = "dump_sexp" /\ cursor' = tree.parent[cursor]

\* the step is at a named node at one end or the other
AtNamed == tree.is_named[cursor] \/ tree.is_named[cursor']

\* C10 as stated: indent_level goes up by one on a descent into a named node,
\* down by one on an ascent out of a named node, and changes at no other step
\* (a step counts as being at a named node if either of its ends is named).
C10_OnlyAtNamedNodes ==
    [][pc = "dump_sexp" =>
          indent_level' = indent_level +
              (IF DumpGoesDown /\ AtNamed THEN 1
               ELSE IF DumpGoesUp /\ AtNamed THEN -1 ELSE 0)]_vars

\* C10 amended: indent_level goes up by one on every successful descent and
\* down by one on every successful ascent, whether or not the nodes are
\* named, and changes at no other step.
C10_IndentByMove ==
    [][pc = "dump_sexp" =>
          indent_level' = indent_level +
              (IF DumpGoesDown THEN 1 ELSE IF DumpGoesUp THEN -1 ELSE 0)]_vars

\* the cursor is back at an unnamed node of depth 1 after visiting its unnamed
\* child: the level went up twice and came down once
C10_Witness ==
    /\ pc = "dump_sexp"
    /\ visited_children
    /\ indent_level = 1
    /\ tree.parent[cursor] = 1
    /\ ~tree.is_named[cursor]
    /\ ~tree.is_named[1]
    /\ \E c \in Children(tree, cursor) : ~tree.is_named[c]
    /\ dump_walk[Len(dump_walk)][1] \in Children(tree, cursor)


\* ------------------------------------------------------------------------
\* C11
\* ------------------------------------------------------------------------

\* the number of pieces of one sort among the printed pieces
CountPieces(printed, sort) == Len(SelectSeq(printed, LAMBDA e : e.piece = sort))

\* the named nodes dump_sexp has been at with the flag equal to f
DumpVisitedNamed(f) ==
    {n \in NamedNodes : \E i \in 1..Len(dump_walk) : dump_walk[i] = <<n, f>>}

\* C11: dump_sexp prints one opening marker and one closing marker for each
\* named node and none for an unnamed node; no prefix of the output has more
\* closing than opening markers, and once the walk has ended they are as many.
C11_BalancedMarkers ==
    /\ CountPieces(stdout, "open") = Cardinality(DumpVisitedNamed(FALSE))
    /\ CountPieces(stdout, "close") = Cardinality(DumpVisitedNamed(TRUE))
    /\ \A k \in 0..Len(stdout) :
          CountPieces(SubSeq(stdout, 1, k), "close")
             <= CountPieces(SubSeq(stdout, 1, k), "open")
    /\ pc # "dump_sexp" =>
          /\ CountPieces(stdout, "open") = Cardinality(NamedNodes)
          /\ CountPieces(stdout, "close") = Cardinality(NamedNodes)

\* dump_sexp has ended on a tree with nested named nodes and unnamed ones
C11_Witness ==
    /\ pc = "dump_sexp_exit"
    /\ Cardinality(NamedNodes) >= 2
    /\ NamedNodes # Nodes
    /\ \E n \in NamedNodes : tree.parent[n] \in NamedNodes
    /\ CountPieces(stdout, "close") >= 2


\* ------------------------------------------------------------------------
\* C12
\* ------------------------------------------------------------------------

\* the positions of the delimiters on a stack
TokensAt(st) == {i \in 1..Len(st) : IsToken(st[i], "(")}

HasDelimiter(st) == TokensAt(st) # {}

\* the position of the topmost delimiter
TopToken(st) == Max(TokensAt(st))

\* the entries above the topmost delimiter, bottom to top
AboveToken(st) == SubSeq(st, TopToken(st) + 1, Len(st))

\* the entries below the topmost delimiter, bottom to top
BelowToken(st) == SubSeq(st, 1, TopToken(st) - 1)

\* this step is a call of construct_list on the stack `incomplete`
CollapseCalled == Len(collapse_calls') > Len(collapse_calls)

\* C12: construct_list, called on a stack that holds a delimiter, pops down to
\* and including the topmost delimiter and pushes one entry in their place:
\* the accumulated entry itself if there is exactly one, else the List of
\* the accumulated entries in the order they were pushed, without the delimiter.
C12_ReplacesTopRun ==
    [][(CollapseCalled /\ HasDelimiter(incomplete)) =>
          incomplete' =
             Append(BelowToken(incomplete),
                    IF Len(AboveToken(incomplete)) = 1
                    THEN AboveToken(incomplete)[1]
                    ELSE List(AboveToken(incomplete)))]_vars

\* construct_list has returned from a stack with entries below the delimiter
\* and exactly one entry above it, which it left unwrapped
C12_Witness ==
    /\ pc = "construct_list_returned"
    /\ LET st == collapse_calls[1].stack
       IN  /\ Len(st) = 4
           /\ TokensAt(st) = {1, 3}
           /\ st[4].tag = "Value"
           /\ incomplete = <<st[1], st[2], st[4]>>

\* ------------------------------------------------------------------------
\* C13
\* ------------------------------------------------------------------------

\* C13: construct_list leaves the entries below the topmost delimiter as they
\* are, in their order; when to_sexp closes a node that has a field name, the
\* Field pushed for it is the entry beneath the delimiter and ends up directly
\* beneath the replacement entry.
C13_BelowUnchanged ==
    [][(CollapseCalled /\ HasDelimiter(incomplete)) =>
          /\ Len(incomplete') >= TopToken(incomplete) - 1
          /\ SubSeq(incomplete', 1, TopToken(incomplete) - 1) = BelowToken(incomplete)
          /\ (pc = "to_sexp" /\ tree.field_name[cursor] # NoField) =>
                /\ TopToken(incomplete) >= 2
                /\ incomplete[TopToken(incomplete) - 1] = Field(tree.field_name[cursor])
                /\ Len(incomplete') >= 2
                /\ incomplete'[Len(incomplete') - 1] = Field(tree.field_name[cursor])]_vars

\* to_sexp has just closed a node that has a field name, with the Field and
\* entries of enclosing nodes left beneath the node's List
C13_Witness ==
    /\ pc = "to_sexp"
    /\ collapse_calls # <<>>
    /\ LET call == collapse_calls[Len(collapse_calls)]
       IN  /\ sexp_walk[Len(sexp_walk)] = <<call.node, TRUE>>
           /\ tree.field_name[call.node] # NoField
           /\ Len(incomplete) >= 4
           /\ incomplete[Len(incomplete)].tag = "List"
           /\ incomplete[Len(incomplete) - 1].tag = "Field"
           /\ SubSeq(incomplete, 1, Len(incomplete) - 1) = BelowToken(call.stack)

\* ------------------------------------------------------------------------
\* C14
\* ------------------------------------------------------------------------

\* the named nodes among node n and its ancestors
NamedAncestorsOrSelf(n) == AncestorsOrSelf(tree.parent, n) \cap NamedNodes

\* C14 as stated: at every call of construct_list by to_sexp the stack holds
\* exactly one delimiter, and it lies below the top.
C14_ExactlyOneDelimiter ==
    \A i \in 1..Len(collapse_calls) :
       collapse_calls[i].node # 0 =>
          /\ Cardinality(TokensAt(collapse_calls[i].stack)) = 1
          /\ TopToken(collapse_calls[i].stack) < Len(collapse_calls[i].stack)

\* C14 amended: at every call of construct_list by to_sexp the stack holds one
\* delimiter for each named node among the node being closed and its
\* ancestors, so at least one; the topmost lies below the top and is the one
\* pushed when the node being closed was entered: above it lie the node's
\* Kind and what the node's subtree added, and nothing else.
C14_TopDelimiterIsTheNodes ==
    \A i \in 1..Len(collapse_calls) :
       collapse_calls[i].node # 0 =>
          LET st == collapse_calls[i].stack
              n == collapse_calls[i].node
          IN  /\ Cardinality(TokensAt(st)) = Cardinality(NamedAncestorsOrSelf(n))
              /\ HasDelimiter(st)
              /\ TopToken(st) + 2 <= Len(st)
              /\ st[TopToken(st) + 1] = Kind(tree.kind[n])
              /\ Flatten(List(AboveToken(st))) = Contribution(n)

\* to_sexp has called construct_list with three delimiters on the stack
C14_Witness ==
    \E i \in 1..Len(collapse_calls) :
       /\ collapse_calls[i].node # 0
       /\ Cardinality(TokensAt(collapse_calls[i].stack)) = 3
       /\ BelowToken(collapse_calls[i].stack) # <<>>

\* ------------------------------------------------------------------------
\* C15
\* ------------------------------------------------------------------------

\* C15: a call of construct_list on a stack that holds no delimiter aborts
\* instead of returning with a changed stack, and to_sexp never makes such a call.
C15_AbortsWithoutDelimiter ==
    /\ [][(CollapseCalled /\ ~HasDelimiter(incomplete)) =>
             /\ pc' = "aborted"
             /\ incomplete' = incomplete]_vars
    /\ [](\A i \in 1..Len(collapse_calls) :
             collapse_calls[i].node # 0 => HasDelimiter(collapse_calls[i].stack))


\* ------------------------------------------------------------------------
\* C16
\* ------------------------------------------------------------------------

\* the iterations of to_sexp that found the cursor at node n with the flag f
VisitsOf(n, f) == {i \in 1..Len(sexp_walk) : sexp_walk[i] = <<n, f>>}

\* the nodes strictly below node n
DescendantsOf(n) == {d \in Nodes : d # n /\ n \in AncestorsOrSelf(tree.parent, d)}

\* C16: to_sexp has the cursor at every node once with the children not yet
\* visited and once with the children visited; the first of these comes
\* before, and the second after, every visit of the node's descendants.
C16_EachNodeOnceEachWay ==
    /\ \A n \in Nodes : \A f \in BOOLEAN : Cardinality(VisitsOf(n, f)) <= 1
    /\ pc \in {"to_sexp_exit", "done"} =>
          \A n \in Nodes : \A f \in BOOLEAN : Cardinality(VisitsOf(n, f)) = 1
    /\ \A n \in Nodes :
          /\ \A up \in VisitsOf(n, TRUE) : \E down \in VisitsOf(n, FALSE) : down < up
          /\ \A d \in DescendantsOf(n) :
                /\ \A i \in VisitsOf(d, FALSE) \cup VisitsOf(d, TRUE) :
                      \E down \in VisitsOf(n, FALSE) : down < i
                /\ \A up \in VisitsOf(n, TRUE) :
                      /\ VisitsOf(d, FALSE) # {} /\ VisitsOf(d, TRUE) # {}
                      /\ \A i \in VisitsOf(d, FALSE) \cup VisitsOf(d, TRUE) : i < up

\* to_sexp has walked a tree of the largest size with nodes at three depths
\* and a node with two children
C16_Witness ==
    /\ pc = "to_sexp_exit"
    /\ tree.size = MaxNodes
    /\ \E n \in Nodes : tree.parent[n] > 1
    /\ \E n \in Nodes : Cardinality(Children(tree, n)) >= 2
    /\ \A n \in Nodes : VisitsOf(n, FALSE) # {} /\ VisitsOf(n, TRUE) # {}

\* ------------------------------------------------------------------------
\* C17
\* ------------------------------------------------------------------------

RECURSIVE RefValue(_)
RECURSIVE RefContribution(_)

\* the reference value of a named node: the List of its Kind followed by its
\* text if it is childless, else by what its children contribute, left to right
RefValue(n) ==
    List(<<Kind(tree.kind[n])>>
         \o (IF Children(tree, n) = {}
             THEN <<Value(Slice(n))>>
             ELSE LET cs == SortedSeq(Children(tree, n))
                  IN  Concat([i \in 1..Len(cs) |-> RefContribution(cs[i])])))

\* what a node contributes to its parent: a named node its Field, if it has a
\* field name, and its value; an unnamed childless node its text; an unnamed
\* node with children what its children contribute
RefContribution(c) ==
    IF tree.is_named[c]
    THEN (IF tree.field_name[c] # NoField
          THEN <<Field(tree.field_name[c])>> ELSE <<>>)
         \o <<RefValue(c)>>
    ELSE IF Children(tree, c) = {}
    THEN <<Value(Slice(c))>>
    ELSE LET cs == SortedSeq(Children(tree, c))
         IN  Concat([i \in 1..Len(cs) |-> RefContribution(cs[i])])

\* C17: the value to_sexp returns is the reference value of the root; for an
\* unnamed root it is what the root contributes, as it is if that is one
\* entry and as a List otherwise.
C17_EqualsReference ==
    Returned =>
        IF tree.is_named[1]
        THEN result = RefValue(1)
        ELSE result = (IF Len(RefContribution(1)) = 1
                       THEN RefContribution(1)[1]
                       ELSE List(RefContribution(1)))

\* a returned value for a named root with an unnamed child that has children,
\* one of them a named node with a field name
C17_Witness ==
    /\ Returned
    /\ tree.is_named[1]
    /\ \E u \in Nodes \ {1} :
          /\ ~tree.is_named[u]
          /\ Cardinality(Children(tree, u)) >= 2
          /\ \E c \in Children(tree, u) :
                tree.is_named[c] /\ tree.field_name[c] # NoField
          /\ \E c \in Children(tree, u) : ~tree.is_named[c]

\* ------------------------------------------------------------------------
\* C18
\* ------------------------------------------------------------------------

\* the named nodes to_sexp has entered and not yet closed
OpenNamed == {n \in NamedNodes : VisitsOf(n, FALSE) # {} /\ VisitsOf(n, TRUE) = {}}

\* the number of delimiters on a stack, inside its Lists included
TokenCount(st) == Len(EntriesOf(List(st), "Token"))

\* C18: at every iteration of the loop of to_sexp the stack holds as many
\* delimiters as there are named nodes entered and not yet closed, which are
\* the named ancestors of the cursor's node and, once its children have been
\* visited, the node itself if it is named; none is left when the loop has ended.
C18_DelimitersCountOpenNodes ==
    /\ pc = "to_sexp" =>
          /\ TokenCount(incomplete) = Cardinality(OpenNamed)
          /\ OpenNamed =
                (NamedAncestorsOrSelf(cursor) \ {cursor})
                \cup (IF is_children_visited /\ tree.is_named[cursor]
                      THEN {cursor} ELSE {})
    /\ pc \in {"to_sexp_exit", "done"} =>
          /\ TokenCount(incomplete) = 0
          /\ OpenNamed = {}

\* to_sexp has visited a childless named node that lies below two named
\* nodes: three delimiters are on the stack
C18_Witness ==
    /\ pc = "to_sexp"
    /\ is_children_visited
    /\ Children(tree, cursor) = {}
    /\ TokenCount(incomplete) = 3
    /\ tree.is_named[cursor]

\* ------------------------------------------------------------------------
\* C19
\* ------------------------------------------------------------------------

RECURSIVE ListsOf(_)
\* the Lists of a value, itself included, at all depths
ListsOf(v) ==
    IF v.tag # "List" THEN <<>>
    ELSE <<v>> \o Concat([i \in 1..Len(v.elems) |-> ListsOf(v.elems[i])])

\* the Lists of a value whose first element is a Kind
KindLists(v) ==
    SelectSeq(ListsOf(v), LAMBDA l : l.elems # <<>> /\ l.elems[1].tag = "Kind")

\* C19: every call of construct_list by to_sexp accumulates at least two
\* entries, the first the Kind of the node being closed; so the returned value
\* has one List headed by a Kind for each named node, no List of it is empty
\* or has one element, and for a named root it is a List headed by the root's Kind.
C19_ListsHaveKindAndMore ==
    /\ \A i \in 1..Len(collapse_calls) :
          LET st == collapse_calls[i].stack
          IN  /\ HasDelimiter(st)
              /\ Len(AboveToken(st)) >= 2
              /\ AboveToken(st)[1] = Kind(tree.kind[collapse_calls[i].node])
    /\ Returned =>
          /\ \A i \in 1..Len(ListsOf(result)) : Len(ListsOf(result)[i].elems) >= 2
          /\ Len(KindLists(result)) = Cardinality(NamedNodes)
          /\ tree.is_named[1] =>
                /\ result.tag = "List"
                /\ result.elems[1] = Kind(tree.kind[1])

\* a returned value for a named root with a childless named child and others
C19_Witness ==
    /\ Returned
    /\ tree.is_named[1]
    /\ Len(collapse_calls) >= 3
    /\ \E n \in NamedNodes \ {1} : Children(tree, n) = {}
    /\ Len(ListsOf(result)) >= 3

\* ------------------------------------------------------------------------
\* C20
\* ------------------------------------------------------------------------

\* the number of ancestors of node n, named or not
Depth(n) == Cardinality(AncestorsOrSelf(tree.parent, n)) - 1

\* the positions of the opening markers in the output, in order
OpensAt(printed) ==
    SortedSeq({j \in 1..Len(printed) : printed[j].piece = "open"})

\* the number of indentation pieces printed for the opening marker at position j:
\* those directly before it, or before the field name that precedes it
IndentsBefore(printed, j) ==
    LET last == IF j > 1 /\ printed[j - 1].piece = "field" THEN j - 2 ELSE j - 1
        others == {k \in 1..last : printed[k].piece # "indent"}
    IN  last - (IF others = {} THEN 0 ELSE Max(others))

\* C20: at every iteration of the loop of dump_sexp indent_level is the depth
\* of the cursor's node, counting named and unnamed ancestors; it is never
\* negative, the indentation printed for a named node is one piece for each
\* level of its depth, and indent_level is 0 when the loop has ended.
C20_IndentIsDepth ==
    /\ indent_level >= 0
    /\ pc = "dump_sexp" => indent_level = Depth(cursor)
    /\ pc # "dump_sexp" => indent_level = 0
    /\ LET opens == OpensAt(stdout)
           named == SortedSeq(NamedNodes)
       IN  /\ Len(opens) <= Len(named)
           /\ \A k \in 1..Len(opens) :
                 IndentsBefore(stdout, opens[k]) = Depth(named[k])

\* dump_sexp has printed a named node of depth 2 below an unnamed node and
\* come back up to the root
C20_Witness ==
    /\ pc = "dump_sexp"
    /\ cursor = 1
    /\ visited_children
    /\ \E n \in NamedNodes :
          /\ Depth(n) = 2
          /\ ~tree.is_named[tree.parent[n]]
          /\ tree.field_name[n] # NoField
    /\ \E k \in 1..Len(OpensAt(stdout)) :
          IndentsBefore(stdout, OpensAt(stdout)[k]) = 2

====
